---- MODULE Spec2Model ----
(***************************************************************************)
(* Model of tensorflow/contrib/distributions/python/ops/distribution.py:   *)
(* the default-method protocol of BaseDistribution and Distribution.       *)
(*                                                                         *)
(* The state is a Python call stack executing the methods of one instance  *)
(* of a concrete subclass, the graph's name-scope stack, the graph nodes   *)
(* created so far by the running top-level call, and the log of method     *)
(* invocations.  The subclass (which methods it implements itself, which   *)
(* it forwards to the base class with super(), its flags and shapes) is    *)
(* chosen in Init.                                                         *)
(***************************************************************************)
EXTENDS Integers, Sequences, FiniteSets, TLC

\* ------------------------------------------------------------- bounds
\* Largest dimension size used in a sample_shape.
MaxDim == 2
\* Longest sample_shape.
MaxRank == 2
\* Depth of the call stack at which the interpreter refuses a further call
\* (a scaled-down sys.getrecursionlimit()).
MaxDepth == 6

\* ------------------------------------------------------------- names
Stats == {"entropy", "mean", "mode", "std", "variance"}
\* Methods with a raising default that a subclass may override.
Optional == {"sample_n", "log_cdf"} \cup Stats
Likelihood == {"prob", "log_prob"}
ModeMethods == {"pdf", "log_pdf", "pmf", "log_pmf"}
Scoped == {"prob", "log_prob", "cdf"}
ValueMethods == Likelihood \cup ModeMethods \cup {"cdf", "log_cdf"}
Methods == ValueMethods \cup Stats \cup {"sample_n", "sample"}

\* Static dimension that is not known at graph construction (None).
Unknown == -1

\* The scope the caller of the distribution has open, and the instance's name.
OuterScope == <<"outer">>
SelfName == "dist"

\* ------------------------------------------------------------- values
\* A value: a Python literal (py) or a tensor; ops is the chain of operations
\* applied to the input id (outermost first); dyn is the runtime shape and
\* static the shape known at construction (modelled for samples only).
Val(py, id, ops, dyn, static) ==
  [py |-> py, id |-> id, ops |-> ops, dyn |-> dyn, static |-> static]

NoVal == Val(FALSE, -1, <<>>, <<>>, <<>>)

InputValues == {Val(p, i, <<>>, <<>>, <<>>) : p \in BOOLEAN, i \in 0..1}

Seeds == {-1, 7}    \* -1 stands for seed=None

RECURSIVE SeqsUpTo(_, _)
SeqsUpTo(S, k) ==
  IF k = 0 THEN {<<>>}
  ELSE LET R == SeqsUpTo(S, k - 1)
       IN  R \cup {Append(r, x) : r \in {q \in R : Len(q) = k - 1}, x \in S}

SampleShapes == SeqsUpTo(0..MaxDim, MaxRank)

\* Batch and event shapes of the modelled subclasses.
BatchShapes == {<<>>, <<2>>}
EventShapes == {<<>>, <<3>>}

RECURSIVE Prod(_)
Prod(s) == IF s = <<>> THEN 1 ELSE Head(s) * Prod(Tail(s))

\* The static shapes consistent with a runtime shape: each dimension either
\* known and equal, or unknown.
RECURSIVE StaticViews(_)
StaticViews(dyn) ==
  IF dyn = <<>> THEN {<<>>}
  ELSE {<<h>> \o t : h \in {Head(dyn), Unknown}, t \in StaticViews(Tail(dyn))}

Consistent(static, dyn) ==
  /\ Len(static) = Len(dyn)
  /\ \A i \in 1..Len(dyn) : static[i] # Unknown => static[i] = dyn[i]

\* ------------------------------------------------------------- state
VARIABLES
  obj,      \* the subclass and whether an instance of it exists
  stack,    \* call stack, innermost frame last
  scopes,   \* the graph's name-scope stack
  nodes,    \* graph nodes created during the running top-level call
  calls,    \* method invocations of the running top-level call, in order
  ret,      \* value handed from a returning frame to its caller
  exc,      \* exception in flight ("none" when there is none)
  result    \* outcome of the last top-level call

vars == <<obj, stack, scopes, nodes, calls, ret, exc, result>>

Impl == {"absent", "super", "own"}

Classes ==
  {[state |-> "class", probImpl |-> p, logProbImpl |-> l, overrides |-> o,
    is_continuous |-> c, batch |-> b, event |-> e] :
     p \in Impl, l \in Impl,
     o \in {{}, {"sample_n"}, {"log_cdf"}, Optional},
     c \in BOOLEAN, b \in BatchShapes, e \in EventShapes}

\* kind: none | running | value | error; val is the value returned and inner
\* the value the top-level method itself received from the method it called.
NoResult == [kind |-> "none", m |-> "", val |-> NoVal, inner |-> NoVal,
             err |-> "none", arg |-> NoVal, shape |-> <<>>, const |-> TRUE,
             seed |-> -1, n |-> 0]

Init ==
  /\ obj \in {c \in Classes :
                /\ "sample_n" \notin c.overrides => c.batch = <<>> /\ c.event = <<>>
                /\ (c.probImpl = "absent" \/ c.logProbImpl = "absent") =>
                     c.overrides = {} /\ c.is_continuous}
  /\ stack = <<>>
  /\ scopes = OuterScope
  /\ nodes = {}
  /\ calls = <<>>
  /\ ret = NoVal
  /\ exc = "none"
  /\ result = NoResult


\* ------------------------------------------------------------- helpers
Front(s) == SubSeq(s, 1, Len(s) - 1)
Top == stack[Len(stack)]

\* ops.convert_to_tensor: a Python literal becomes a constant tensor, a
\* tensor is returned as it is.
ConvertToTensor(v) == [v EXCEPT !.py = FALSE]

\* A unary graph operation applied to a value.
Apply(op, v) == [ConvertToTensor(v) EXCEPT !.ops = <<op>> \o @]

Node(op, by) == [op |-> op, scope |-> scopes, by |-> by]
NodeIn(op, by, sc) == [op |-> op, scope |-> sc, by |-> by]

Frame(m, impl, name, val, shape, const, seed, n) ==
  [m |-> m, impl |-> impl, pc |-> "start", name |-> name, val |-> val,
   shape |-> shape, const |-> const, seed |-> seed, n |-> n, opened |-> 0]

CallEntry(f, by) ==
  [m |-> f.m, impl |-> f.impl, by |-> by, arg |-> f.val, n |-> f.n,
   seed |-> f.seed, name |-> f.name]

\* Which code runs when method m is called on the instance: the subclass's own
\* implementation, or the base class's ("super" forwards to the base class).
Resolve(m) ==
  IF m = "prob" THEN (IF obj.probImpl = "own" THEN "own" ELSE "base")
  ELSE IF m = "log_prob" THEN (IF obj.logProbImpl = "own" THEN "own" ELSE "base")
  ELSE IF m \in obj.overrides THEN "own"
  ELSE "base"

\* The top frame returns v to its caller (or to the top-level caller).
PopReturn(v) ==
  /\ stack' = Front(stack)
  /\ IF Len(stack) = 1
       THEN /\ result' = [result EXCEPT !.kind = "value", !.val = v, !.inner = ret]
            /\ ret' = NoVal
       ELSE /\ ret' = v
            /\ result' = result

\* The caller's frame updated to `caller` calls `callee`; the interpreter
\* refuses the call at its recursion limit.
PushCall(caller, callee) ==
  IF Len(stack) >= MaxDepth
    THEN /\ exc' = "RuntimeError"
         /\ UNCHANGED <<stack, calls>>
    ELSE /\ exc' = exc
         /\ stack' = Append([stack EXCEPT ![Len(stack)] = caller], callee)
         /\ calls' = Append(calls, CallEntry(callee, caller.m))

Running == obj.state = "instance" /\ stack # <<>> /\ exc = "none"

\* ------------------------------------------------------------- construction
\* abc.ABCMeta: a class that leaves an abstract method undefined cannot be
\* instantiated.
Abstract(c) == c.probImpl = "absent" \/ c.logProbImpl = "absent"

ConstructOk ==
  /\ obj.state = "class"
  /\ ~Abstract(obj)
  /\ obj' = [obj EXCEPT !.state = "instance"]
  /\ UNCHANGED <<stack, scopes, nodes, calls, ret, exc, result>>

\* Mutant: the abstract methods are not enforced at instantiation.
ConstructAbstract_Instantiates ==
  /\ obj.state = "class"
  /\ Abstract(obj)
  /\ obj' = [obj EXCEPT !.state = "instance"]
  /\ UNCHANGED <<stack, scopes, nodes, calls, ret, exc, result>>

ConstructAbstract ==
  /\ obj.state = "class"
  /\ Abstract(obj)
  /\ obj' = [obj EXCEPT !.state = "TypeError"]
  /\ UNCHANGED <<stack, scopes, nodes, calls, ret, exc, result>>

\* ------------------------------------------------------------- top-level call
DefaultName(m) == m

Begin(f) ==
  /\ stack' = <<f>>
  /\ calls' = <<CallEntry(f, "")>>
  /\ nodes' = {}
  /\ ret' = NoVal
  /\ result' = [kind |-> "running", m |-> f.m, val |-> NoVal, inner |-> NoVal,
                err |-> "none",
                arg |-> f.val, shape |-> f.shape, const |-> f.const,
                seed |-> f.seed, n |-> f.n]
  /\ UNCHANGED <<obj, scopes, exc>>

Invoke ==
  /\ obj.state = "instance"
  /\ stack = <<>>
  /\ exc = "none"
  /\ result.kind = "none"
  /\ \E m \in Methods :
       IF m \in ValueMethods
         THEN \E v \in InputValues :
                Begin(Frame(m, Resolve(m), DefaultName(m), v, <<>>, TRUE, -1, 0))
       ELSE IF m = "sample"
         THEN \E sh \in SampleShapes, c \in BOOLEAN, sd \in Seeds :
                Begin(Frame(m, Resolve(m), DefaultName(m), NoVal, sh, c, sd, 0))
       ELSE IF m = "sample_n"
         THEN \E k \in 0..MaxDim, sd \in Seeds :
                Begin(Frame(m, Resolve(m), DefaultName(m), NoVal, <<>>, TRUE, sd, k))
       ELSE Begin(Frame(m, Resolve(m), DefaultName(m), NoVal, <<>>, TRUE, -1, 0))

\* ------------------------------------------------------------- raising defaults
\* BaseDistribution.sample_n (reached through Distribution.sample_n's super
\* call), log_cdf, entropy, mean, mode, std, variance.
NotImplementedDefault(m) == "NotImplementedError"

\* Mutant: the default body falls through and returns None.
RaiseNotImplemented_ReturnsNone ==
  /\ Running
  /\ Top.m \in Optional
  /\ Top.impl = "base"
  /\ PopReturn(Val(TRUE, -2, <<>>, <<>>, <<>>))
  /\ UNCHANGED <<obj, scopes, nodes, calls, exc>>

RaiseNotImplemented ==
  /\ Running
  /\ Top.m \in Optional
  /\ Top.impl = "base"
  /\ exc' = NotImplementedDefault(Top.m)
  /\ UNCHANGED <<obj, stack, scopes, nodes, calls, ret, result>>

\* ------------------------------------------------------------- the subclass's own methods
OwnValue(f, static) ==
  IF f.m = "sample_n"
    THEN Val(FALSE, 0, <<"sample_n">>, <<f.n>> \o obj.batch \o obj.event, static)
  ELSE IF f.m \in Stats
    THEN Val(FALSE, 0, <<f.m>>, <<>>, <<>>)
  ELSE Apply(f.m, f.val)

OwnMethod ==
  /\ Running
  /\ Top.impl = "own"
  /\ \E static \in (IF Top.m = "sample_n"
                      THEN StaticViews(<<Top.n>> \o obj.batch \o obj.event)
                      ELSE {<<>>}) :
       PopReturn(OwnValue(Top, static))
  /\ nodes' = nodes \cup {Node(Top.m, "own")}
  /\ UNCHANGED <<obj, scopes, calls, exc>>

\* ------------------------------------------------------------- exceptions
\* An exception leaves the top frame; the frame's `with` blocks exit, closing
\* the scopes the frame opened.
WithExit(sc, f) == SubSeq(sc, 1, Len(sc) - f.opened)

\* Mutant: the exception is replaced by another one on its way out.
Propagate_Wrapped(e) == "RuntimeError"

\* No default method has an except clause: the exception leaves as it is.
Propagate(e) == e

\* Mutant: the scopes are not closed when the frame is left by an exception.
Unwind_NoExit ==
  /\ obj.state = "instance"
  /\ stack # <<>>
  /\ exc # "none"
  /\ scopes' = scopes
  /\ stack' = Front(stack)
  /\ IF Len(stack) = 1
       THEN /\ result' = [result EXCEPT !.kind = "error", !.err = Propagate(exc)]
            /\ exc' = "none"
       ELSE /\ exc' = Propagate(exc)
            /\ result' = result
  /\ ret' = NoVal
  /\ UNCHANGED <<obj, nodes, calls>>

Unwind ==
  /\ obj.state = "instance"
  /\ stack # <<>>
  /\ exc # "none"
  /\ scopes' = WithExit(scopes, Top)
  /\ stack' = Front(stack)
  /\ IF Len(stack) = 1
       THEN /\ result' = [result EXCEPT !.kind = "error", !.err = Propagate(exc)]
            /\ exc' = "none"
       ELSE /\ exc' = Propagate(exc)
            /\ result' = result
  /\ ret' = NoVal
  /\ UNCHANGED <<obj, nodes, calls>>

\* The caller takes the outcome of the finished call; the instance is
\* unchanged and may be called again.
Discard ==
  /\ obj.state = "instance"
  /\ stack = <<>>
  /\ result.kind \in {"value", "error"}
  /\ result' = NoResult
  /\ nodes' = {}
  /\ calls' = <<>>
  /\ UNCHANGED <<obj, stack, scopes, ret, exc>>

\* ------------------------------------------------------------- pdf / pmf dispatch
\* What each entry point does for a given is_continuous: the method it
\* delegates to, or "raise".
\* Mutant: pdf without the is_continuous check.
pdf_Unchecked(is_continuous) == "prob"
\* Mutant: pmf delegating to log_prob.
pmf_Crossed(is_continuous) == IF is_continuous THEN "raise" ELSE "log_prob"

log_pdf(is_continuous) == IF is_continuous THEN "log_prob" ELSE "raise"
pdf(is_continuous) == IF is_continuous THEN "prob" ELSE "raise"
log_pmf(is_continuous) == IF is_continuous THEN "raise" ELSE "log_prob"
pmf(is_continuous) == IF is_continuous THEN "raise" ELSE "prob"

ModeTarget(m, is_continuous) ==
  IF m = "log_pdf" THEN log_pdf(is_continuous)
  ELSE IF m = "pdf" THEN pdf(is_continuous)
  ELSE IF m = "log_pmf" THEN log_pmf(is_continuous)
  ELSE pmf(is_continuous)

ModeDispatch ==
  /\ Running
  /\ Top.m \in ModeMethods
  /\ Top.pc = "start"
  /\ LET t == ModeTarget(Top.m, obj.is_continuous)
     IN  IF t = "raise"
           THEN /\ exc' = "NotImplementedError"
                /\ UNCHANGED <<stack, calls>>
           ELSE \* return self.<t>(value, name=name)
                PushCall([Top EXCEPT !.pc = "wait"],
                         Frame(t, Resolve(t), Top.name, Top.val, <<>>, TRUE, -1, 0))
  /\ UNCHANGED <<obj, scopes, nodes, ret, result>>

ModeReturn ==
  /\ Running
  /\ Top.m \in ModeMethods
  /\ Top.pc = "wait"
  /\ ret # NoVal
  /\ PopReturn(ret)
  /\ UNCHANGED <<obj, scopes, nodes, calls, exc>>

\* ------------------------------------------------------------- prob / log_prob / cdf defaults
\* with ops.name_scope(self.name): with ops.op_scope([value], name):
EnterScopes(sc, name) == sc \o <<SelfName, name>>

\* The method each default calls on self, and the operation it applies to
\* what that call returns.
\* Mutant: prob returning log_prob's result without exponentiating it.
prob_NoExp(lp) == ConvertToTensor(lp)

prob(lp) == Apply("exp", lp)
log_prob(p) == Apply("log", p)
cdf(lc) == Apply("exp", lc)

Delegate(m) ==
  IF m = "prob" THEN "log_prob"
  ELSE IF m = "log_prob" THEN "prob"
  ELSE "log_cdf"

Transform(m, v) ==
  IF m = "prob" THEN prob(v)
  ELSE IF m = "log_prob" THEN log_prob(v)
  ELSE cdf(v)

ScopedEnter ==
  /\ Running
  /\ Top.m \in Scoped
  /\ Top.impl = "base"
  /\ Top.pc = "start"
  /\ scopes' = EnterScopes(scopes, Top.name)
  /\ nodes' = nodes \cup
       (IF Top.val.py THEN {NodeIn("Const", Top.m, scopes')} ELSE {})
  /\ stack' = [stack EXCEPT ![Len(stack)] =
                 [Top EXCEPT !.pc = "call", !.opened = 2,
                             !.val = ConvertToTensor(Top.val)]]
  /\ UNCHANGED <<obj, calls, ret, exc, result>>

ScopedCall ==
  /\ Running
  /\ Top.m \in Scoped
  /\ Top.pc = "call"
  /\ LET d == Delegate(Top.m)
     IN  PushCall([Top EXCEPT !.pc = "wait"],
                  Frame(d, Resolve(d), DefaultName(d), Top.val, <<>>, TRUE, -1, 0))
  /\ UNCHANGED <<obj, scopes, nodes, ret, result>>

ScopedReturn ==
  /\ Running
  /\ Top.m \in Scoped
  /\ Top.pc = "wait"
  /\ ret # NoVal
  /\ nodes' = nodes \cup {Node(Transform(Top.m, ret).ops[1], Top.m)}
  /\ scopes' = WithExit(scopes, Top)
  /\ PopReturn(Transform(Top.m, ret))
  /\ UNCHANGED <<obj, calls, exc>>

\* ------------------------------------------------------------- sample
\* math_ops.reduce_prod of a rank-1 tensor (1 for the empty one).
ReduceProd(sample_shape) == Prod(sample_shape)

\* array_ops.slice(x, [begin], [-1]) and TensorShape[begin:].
SliceFrom(x, begin) == SubSeq(x, begin + 1, Len(x))

\* array_ops.concat(0, [a, b]) and TensorShape.concatenate.
Concat(a, b) == a \o b

UnknownDims(k) == [i \in 1..k |-> Unknown]

\* array_ops.reshape: the element count must be kept; the static shape of the
\* result is not known beyond its rank.
Reshape(t, shape) ==
  IF Prod(shape) = Prod(t.dyn)
    THEN [err |-> "none",
          val |-> [t EXCEPT !.ops = <<"reshape">> \o @, !.dyn = shape,
                            !.static = UnknownDims(Len(shape))]]
    ELSE [err |-> "InvalidArgumentError", val |-> NoVal]

\* tensor_util.constant_value_as_shape: the values when they are known at
\* construction, unknown dimensions otherwise.
ConstantValueAsShape(sample_shape, const) ==
  IF const THEN sample_shape ELSE UnknownDims(Len(sample_shape))

\* Tensor.set_shape: merge the given static shape into the tensor's.
SetShape(t, static) ==
  IF /\ Len(static) = Len(t.static)
     /\ \A i \in 1..Len(static) :
          static[i] = Unknown \/ t.static[i] = Unknown \/ static[i] = t.static[i]
    THEN [err |-> "none",
          val |-> [t EXCEPT !.static =
                     [i \in 1..Len(static) |->
                        IF static[i] = Unknown THEN t.static[i] ELSE static[i]]]]
    ELSE [err |-> "ValueError", val |-> NoVal]

\* Mutant: the seed is not handed on.
SampleNRequest_NoSeed(sample_shape, seed) ==
  [n |-> ReduceProd(sample_shape), seed |-> -1]

\* The number of samples requested from sample_n, and the seed handed on.
SampleNRequest(sample_shape, seed) ==
  [n |-> ReduceProd(sample_shape), seed |-> seed]

\* Mutant: sample_shape appended after the trailing dimensions.
sample_Appended(sample_shape, const, samples) ==
  LET output_shape == Concat(SliceFrom(samples.dyn, 1), sample_shape)
      output == Reshape(samples, output_shape)
  IN  IF output.err # "none" THEN output
      ELSE SetShape(output.val,
                    Concat(SliceFrom(samples.static, 1),
                           ConstantValueAsShape(sample_shape, const)))

\* Mutant: the static shape is set in the wrong order.
sample_StaticSwapped(sample_shape, const, samples) ==
  LET output_shape == Concat(sample_shape, SliceFrom(samples.dyn, 1))
      output == Reshape(samples, output_shape)
  IN  IF output.err # "none" THEN output
      ELSE SetShape(output.val,
                    Concat(SliceFrom(samples.static, 1),
                           ConstantValueAsShape(sample_shape, const)))

\* The part of sample after sample_n has returned `samples`.
sample(sample_shape, const, samples) ==
  LET output_shape == Concat(sample_shape, SliceFrom(samples.dyn, 1))
      output == Reshape(samples, output_shape)
  IN  IF output.err # "none" THEN output
      ELSE SetShape(output.val,
                    Concat(ConstantValueAsShape(sample_shape, const),
                           SliceFrom(samples.static, 1)))

SampleEnter ==
  /\ Running
  /\ Top.m = "sample"
  /\ Top.pc = "start"
  /\ scopes' = EnterScopes(scopes, Top.name)
  /\ nodes' = nodes \cup {NodeIn("Prod", "sample", scopes')} \cup
       (IF Top.const THEN {NodeIn("Const", "sample", scopes')} ELSE {})
  /\ stack' = [stack EXCEPT ![Len(stack)] =
                 [Top EXCEPT !.pc = "call", !.opened = 2,
                             !.n = SampleNRequest(Top.shape, Top.seed).n]]
  /\ UNCHANGED <<obj, calls, ret, exc, result>>

SampleCall ==
  /\ Running
  /\ Top.m = "sample"
  /\ Top.pc = "call"
  /\ PushCall([Top EXCEPT !.pc = "wait"],
              Frame("sample_n", Resolve("sample_n"), DefaultName("sample_n"),
                    NoVal, <<>>, TRUE,
                    SampleNRequest(Top.shape, Top.seed).seed, Top.n))
  /\ UNCHANGED <<obj, scopes, nodes, ret, result>>

SampleReturn ==
  /\ Running
  /\ Top.m = "sample"
  /\ Top.pc = "wait"
  /\ ret # NoVal
  /\ LET out == sample(Top.shape, Top.const, ret)
     IN  IF out.err # "none"
           THEN /\ exc' = out.err
                /\ UNCHANGED <<stack, scopes, nodes, result, ret>>
           ELSE /\ nodes' = nodes \cup
                      {Node(op, "sample") : op \in {"Shape", "Slice", "Concat", "Reshape"}}
                /\ scopes' = WithExit(scopes, Top)
                /\ PopReturn(out.val)
                /\ exc' = exc
  /\ UNCHANGED <<obj, calls>>

Next ==
  \/ ConstructOk
  \/ ConstructAbstract
  \/ Invoke
  \/ Discard
  \/ RaiseNotImplemented
  \/ OwnMethod
  \/ ModeDispatch
  \/ ModeReturn
  \/ ScopedEnter
  \/ ScopedCall
  \/ ScopedReturn
  \/ SampleEnter
  \/ SampleCall
  \/ SampleReturn
  \/ Unwind

Spec == Init /\ [][Next]_vars


\* ============================================================= properties
Finished(m) == stack = <<>> /\ result.m = m /\ result.kind \in {"value", "error"}
Returned(m) == stack = <<>> /\ result.m = m /\ result.kind = "value"
Failed(m, e) == stack = <<>> /\ result.m = m /\ result.kind = "error" /\ result.err = e

Range(s) == {s[i] : i \in 1..Len(s)}
CallsTo(m) == {i \in 1..Len(calls) : calls[i].m = m}
CallsBy(m) == {i \in 1..Len(calls) : calls[i].by = m}

\* C1: on a subclass whose sample_n(n) returns shape (n,) + batch_shape +
\* event_shape, sample(sample_shape) returns an array of shape exactly
\* sample_shape + batch_shape + event_shape, for every sample_shape (empty,
\* or containing 0, included).
C1_SampleShape ==
  (Finished("sample") /\ "sample_n" \in obj.overrides) =>
     /\ result.kind = "value"
     /\ result.val.dyn = result.shape \o obj.batch \o obj.event
     /\ (result.shape = <<>> => result.val.dyn = obj.batch \o obj.event)

C1_Witness ==
  /\ Returned("sample")
  /\ Len(result.shape) = 2
  /\ 0 \in Range(result.shape)
  /\ obj.batch = <<2>>
  /\ obj.event = <<3>>
  /\ result.val.dyn = result.shape \o <<2, 3>>

ModeMismatch(m) ==
  \/ m \in {"pdf", "log_pdf"} /\ ~obj.is_continuous
  \/ m \in {"pmf", "log_pmf"} /\ obj.is_continuous

\* C2: pdf and log_pdf on a non-continuous distribution, and pmf and log_pmf
\* on a continuous one, fail with NotImplementedError for every value, and
\* no call to prob or log_prob is made before they fail.
C2_ModeMismatchFails ==
  (result.m \in ModeMethods /\ ModeMismatch(result.m)) =>
     /\ Len(calls) = 1
     /\ CallsTo("prob") = {} /\ CallsTo("log_prob") = {}
     /\ result.kind # "value"
     /\ Finished(result.m) => Failed(result.m, "NotImplementedError")

C2_Witness ==
  /\ Failed("log_pmf", "NotImplementedError")
  /\ obj.is_continuous
  /\ result.arg.py

\* What prob (t = "prob") or log_prob returns for v when called directly.
LikelihoodValue(t, v) ==
  IF Resolve(t) = "own" THEN Apply(t, v)
  ELSE IF t = "prob" THEN Apply("exp", Apply("log_prob", v))
  ELSE Apply("log", Apply("prob", v))

C3_Target(m) == IF m \in {"pdf", "pmf"} THEN "prob" ELSE "log_prob"

\* C3: when the mode matches, pdf and pmf make exactly one call, to prob, and
\* log_pdf and log_pmf exactly one call, to log_prob, with the caller's value,
\* and return exactly what that call returned.
C3_ModeMatchDelegates ==
  \A m \in ModeMethods :
    (Finished(m) /\ ~ModeMismatch(m)) =>
       /\ Cardinality(CallsBy(m)) = 1
       /\ \A i \in CallsBy(m) :
            calls[i].m = C3_Target(m) /\ calls[i].arg = result.arg
       /\ result.kind = "value" =>
            /\ result.val = result.inner
            /\ result.val = LikelihoodValue(C3_Target(m), result.arg)

C3_Witness ==
  /\ Returned("pmf")
  /\ ~obj.is_continuous
  /\ obj.probImpl = "super" /\ obj.logProbImpl = "own"
  /\ result.val.ops = <<"exp", "log_prob">>

\* C4: on a subclass that overrides none of them, entropy, mean, mode, std,
\* variance, log_cdf and sample_n each fail with NotImplementedError and
\* never return a value.
C4_DefaultsRaise ==
  \A m \in Optional :
    (result.m = m /\ m \notin obj.overrides) =>
       /\ result.kind # "value"
       /\ Finished(m) => Failed(m, "NotImplementedError")

C4_Witness ==
  /\ Failed("sample_n", "NotImplementedError")
  /\ obj.overrides = {}
  /\ result.n = 2 /\ result.seed = 7

BothDefault == Resolve("prob") = "base" /\ Resolve("log_prob") = "base"

\* C5: a subclass that defines neither prob nor log_prob is never
\* instantiated, so no call is made on it; on an instance whose prob and
\* log_prob both resolve to the base-class defaults, a call of either never
\* returns a value, its chain prob -> log_prob -> prob -> ... is never longer
\* than the interpreter's recursion limit, it can always take a further step
\* while it runs, and it ends in RuntimeError.
C5_FailsLoudly ==
  /\ Abstract(obj) =>
        /\ obj.state \in {"class", "TypeError"}
        /\ stack = <<>> /\ calls = <<>> /\ result.kind = "none"
  /\ (BothDefault /\ result.m \in Likelihood) =>
        /\ Len(stack) <= MaxDepth
        /\ Len(calls) <= MaxDepth
        /\ \A i \in 1..Len(calls) : calls[i].m \in Likelihood /\ calls[i].impl = "base"
        /\ result.kind # "value"
        /\ stack # <<>> => ENABLED Next
        /\ Finished(result.m) => Failed(result.m, "RuntimeError")

C5_Witness ==
  /\ Failed("prob", "RuntimeError")
  /\ obj.probImpl = "super" /\ obj.logProbImpl = "super"
  /\ Len(calls) = MaxDepth
  /\ calls[3].m = "prob" /\ calls[3].by = "log_prob"
  /\ scopes = OuterScope

\* Default m, with d the subclass's own: one call, of d, and op of its result.
C6_OneDelegation(m, d, op) ==
  (Finished(m) /\ Resolve(m) = "base" /\ Resolve(d) = "own") =>
     /\ result.kind = "value"
     /\ result.val = Apply(op, Apply(d, result.arg))
     /\ Len(calls) = 2
     /\ calls[2].m = d /\ calls[2].impl = "own" /\ calls[2].by = m
     /\ calls[2].arg = ConvertToTensor(result.arg)

\* C6: with only log_prob implemented by the subclass, prob(v) is exp of the
\* result of exactly one call of the subclass's log_prob on v, and nothing
\* else is called; symmetrically for log_prob(v) with only prob implemented.
C6_DerivedLikelihood ==
  /\ C6_OneDelegation("prob", "log_prob", "exp")
  /\ C6_OneDelegation("log_prob", "prob", "log")

C6_Witness ==
  /\ Returned("prob")
  /\ obj.probImpl = "super" /\ obj.logProbImpl = "own"
  /\ result.arg.py
  /\ result.val.ops = <<"exp", "log_prob">>

\* C7: an error raised in the method a default calls reaches the caller of
\* the default unchanged: sample fails with NotImplementedError when sample_n
\* is not overridden (after a single call of it), cdf fails with
\* NotImplementedError when log_cdf is not overridden, and cdf(v) is
\* exp(log_cdf(v)) when it is.
C7_ErrorsPropagate ==
  /\ (Finished("sample") /\ "sample_n" \notin obj.overrides) =>
        /\ Failed("sample", "NotImplementedError")
        /\ Cardinality(CallsTo("sample_n")) = 1
  /\ (Finished("cdf") /\ "log_cdf" \notin obj.overrides) =>
        /\ Failed("cdf", "NotImplementedError")
        /\ Cardinality(CallsTo("log_cdf")) = 1
  /\ (Finished("cdf") /\ "log_cdf" \in obj.overrides) =>
        /\ result.kind = "value"
        /\ result.val = Apply("exp", Apply("log_cdf", result.arg))

C7_Witness ==
  /\ Failed("sample", "NotImplementedError")
  /\ "sample_n" \notin obj.overrides
  /\ result.shape = <<2, 1>>
  /\ Cardinality(CallsTo("sample_n")) = 1

\* C8: a call sample(sample_shape, seed) makes exactly one call to sample_n,
\* with n the product of the entries of sample_shape (1 for the empty shape, 0
\* when an entry is 0) and the caller's seed; the result keeps the trailing
\* dimensions and the element count of what sample_n returned.
C8_OneSampleNRequest ==
  /\ result.m = "sample" => Cardinality(CallsTo("sample_n")) <= 1
  /\ Finished("sample") =>
       /\ Cardinality(CallsTo("sample_n")) = 1
       /\ \A i \in CallsTo("sample_n") :
            /\ calls[i].by = "sample"
            /\ calls[i].n = Prod(result.shape)
            /\ result.shape = <<>> => calls[i].n = 1
            /\ 0 \in Range(result.shape) => calls[i].n = 0
            /\ calls[i].seed = result.seed
  /\ Returned("sample") =>
       /\ SubSeq(result.val.dyn, Len(result.shape) + 1, Len(result.val.dyn))
            = Tail(result.inner.dyn)
       /\ Prod(result.val.dyn) = Prod(result.inner.dyn)

C8_Witness ==
  /\ Returned("sample")
  /\ result.shape = <<2, 2>>
  /\ result.seed = 7
  /\ \E i \in CallsTo("sample_n") : calls[i].n = 4 /\ calls[i].seed = 7
  /\ obj.batch = <<2>>

\* C9: the static shape of sample's result never contradicts its runtime
\* shape; its leading dimensions are known exactly when the values of
\* sample_shape are known at construction, and its trailing dimensions are
\* the static dimensions of sample_n's result from the second one on.
C9_StaticShape ==
  Returned("sample") =>
     LET k == Len(result.shape)
         st == result.val.static
     IN  /\ Consistent(st, result.val.dyn)
         /\ k > 0 => ((\A i \in 1..k : st[i] # Unknown) <=> result.const)
         /\ SubSeq(st, k + 1, Len(st)) = Tail(result.inner.static)

C9_Witness ==
  /\ Returned("sample")
  /\ ~result.const
  /\ result.shape = <<2, 1>>
  /\ result.val.static = <<Unknown, Unknown, 2, Unknown>>
  /\ result.val.dyn = <<2, 1, 2, 3>>

\* The scopes the frames of a call stack hold open, outermost first.
RECURSIVE FrameScopes(_)
FrameScopes(st) ==
  IF st = <<>> THEN <<>>
  ELSE FrameScopes(Front(st)) \o
       (IF st[Len(st)].opened = 2
          THEN <<SelfName, st[Len(st)].name>> ELSE <<>>)

\* C10: every node a default prob, log_prob, cdf or sample creates is created
\* inside the instance's name scope; the scope stack always consists of the
\* caller's scopes followed by the scopes of the running default methods in
\* call order, and is the caller's again once a top-level call has returned
\* or failed.
C10_ScopesBalanced ==
  /\ \A nd \in nodes :
       nd.by \in Scoped \cup {"sample"} =>
          /\ Len(nd.scope) >= Len(OuterScope) + 2
          /\ nd.scope[Len(nd.scope) - 1] = SelfName
  /\ scopes = OuterScope \o FrameScopes(stack)
  /\ stack = <<>> => scopes = OuterScope

C10_Witness ==
  /\ Failed("sample", "NotImplementedError")
  /\ nodes # {}
  /\ scopes = OuterScope

====
